---- MODULE Spec2Model ----
\* A model of ReAct-Example.py: the credential check, the three tool
\* functions, the tool registry, the construction of the model handle and of
\* the ReAct agent, the single chat request, and the defensive introspection
\* of the agent's internals.  Texts are sequences of one-character strings,
\* so that lower-casing, substring tests and string interpolation are
\* computed rather than assumed.
EXTENDS Integers, Sequences, FiniteSets, TLC

VARIABLES
    environ,          \* value of GOOGLE_API_KEY in os.environ
    google_api_key,   \* the module global read on line 18
    pc,               \* position of the interpreter in the script
    multiply_tool,    \* module global of line 70
    add_tool,         \* module global of line 71
    wikipedia_tool,   \* module global of line 72
    tools,            \* module global of line 75
    llm,              \* module global of line 80
    agent,            \* module global of line 83
    question,         \* module global of line 91
    response,         \* module global of line 94
    out,              \* the lines this script has printed to stdout
    frame,            \* the active call of a tool function, or NoFrame
    callLog,          \* completed tool calls: function, arguments, result
    queriesSent,      \* number of times agent.chat has been entered
    phases,           \* the phases of the run, in the order they started
    shape,            \* what the probes have found on the agent's internals
    called,           \* the methods of the internals the script has called
    exc,              \* the exception in flight inside the try block
    error             \* the uncaught exception that ended the run

vars == << environ, google_api_key, pc, multiply_tool, add_tool,
           wikipedia_tool, tools, llm, agent, question, response, out,
           frame, callLog, queriesSent, phases, shape, called, exc, error >>

----------------------------------------------------------------------------
\* Bounds of the model.

\* the delegate makes at most this many tool calls while answering
MaxCalls == 2
\* the delegate passes numbers in 0 .. MaxArg to multiply and add
MaxArg == 1
\* a direct call of multiply or add takes numbers in -MaxNum .. MaxNum
MaxNum == 3
\* a direct call of search_wikipedia takes up to MaxParts pieces of text
MaxParts == 2

----------------------------------------------------------------------------
\* The literal texts of search_wikipedia.

\* the substring tested on line 59
KeyAlanTuring ==
    << "a", "l", "a", "n", " ", "t", "u", "r", "i", "n", "g" >>

\* the substring tested on line 61
KeyLlama ==
    << "l", "l", "a", "m", "a" >>

\* the substring tested on line 63
KeyReactAgent ==
    << "r", "e", "a", "c", "t", " ", "a", "g", "e", "n", "t" >>

\* the text returned on line 60
AlanTuringEntry ==
    << "A", "l", "a", "n", " ", "T", "u", "r", "i", "n", "g", " ", "w", "a", "s", " ",
       "a", " ", "B", "r", "i", "t", "i", "s", "h", " ", "m", "a", "t", "h", "e", "m",
       "a", "t", "i", "c", "i", "a", "n", ",", " ", "c", "o", "m", "p", "u", "t", "e",
       "r", " ", "s", "c", "i", "e", "n", "t", "i", "s", "t", ",", " ", "l", "o", "g",
       "i", "c", "i", "a", "n", ",", " ", "c", "r", "y", "p", "t", "a", "n", "a", "l",
       "y", "s", "t", ",", " ", "p", "h", "i", "l", "o", "s", "o", "p", "h", "e", "r",
       ",", " ", "a", "n", "d", " ", "t", "h", "e", "o", "r", "e", "t", "i", "c", "a",
       "l", " ", "b", "i", "o", "l", "o", "g", "i", "s", "t", ".", " ", "H", "e", " ",
       "w", "a", "s", " ", "h", "i", "g", "h", "l", "y", " ", "i", "n", "f", "l", "u",
       "e", "n", "t", "i", "a", "l", " ", "i", "n", " ", "t", "h", "e", " ", "d", "e",
       "v", "e", "l", "o", "p", "m", "e", "n", "t", " ", "o", "f", " ", "t", "h", "e",
       "o", "r", "e", "t", "i", "c", "a", "l", " ", "c", "o", "m", "p", "u", "t", "e",
       "r", " ", "s", "c", "i", "e", "n", "c", "e", "." >>

\* the text returned on line 62
LlamaEntry ==
    << "A", " ", "l", "l", "a", "m", "a", " ", "i", "s", " ", "a", " ", "d", "o", "m",
       "e", "s", "t", "i", "c", "a", "t", "e", "d", " ", "S", "o", "u", "t", "h", " ",
       "A", "m", "e", "r", "i", "c", "a", "n", " ", "c", "a", "m", "e", "l", "i", "d",
       ",", " ", "w", "i", "d", "e", "l", "y", " ", "u", "s", "e", "d", " ", "a", "s",
       " ", "a", " ", "m", "e", "a", "t", " ", "a", "n", "d", " ", "p", "a", "c", "k",
       " ", "a", "n", "i", "m", "a", "l", " ", "b", "y", " ", "A", "n", "d", "e", "a",
       "n", " ", "c", "u", "l", "t", "u", "r", "e", "s", " ", "s", "i", "n", "c", "e",
       " ", "t", "h", "e", " ", "P", "r", "e", "-", "C", "o", "l", "u", "m", "b", "i",
       "a", "n", " ", "e", "r", "a", "." >>

\* the text returned on line 64
ReactAgentEntry ==
    << "A", " ", "R", "e", "A", "c", "t", " ", "A", "g", "e", "n", "t", " ", "c", "o",
       "m", "b", "i", "n", "e", "s", " ", "R", "e", "a", "s", "o", "n", "i", "n", "g",
       " ", "a", "n", "d", " ", "A", "c", "t", "i", "n", "g", " ", "w", "i", "t", "h",
       "i", "n", " ", "l", "a", "r", "g", "e", " ", "l", "a", "n", "g", "u", "a", "g",
       "e", " ", "m", "o", "d", "e", "l", "s", ".", " ", "I", "t", " ", "g", "e", "n",
       "e", "r", "a", "t", "e", "s", " ", "v", "e", "r", "b", "a", "l", " ", "r", "e",
       "a", "s", "o", "n", "i", "n", "g", " ", "t", "r", "a", "c", "e", "s", " ", "a",
       "n", "d", " ", "a", "c", "t", "i", "o", "n", "s", " ", "p", "e", "r", "t", "a",
       "i", "n", "i", "n", "g", " ", "t", "o", " ", "a", " ", "t", "a", "s", "k", ",",
       " ", "a", "l", "l", "o", "w", "i", "n", "g", " ", "f", "o", "r", " ", "d", "y",
       "n", "a", "m", "i", "c", " ", "r", "e", "a", "s", "o", "n", "i", "n", "g", ",",
       " ", "t", "o", "o", "l", " ", "u", "s", "e", ",", " ", "a", "n", "d", " ", "i",
       "n", "f", "o", "r", "m", "a", "t", "i", "o", "n", " ", "g", "a", "t", "h", "e",
       "r", "i", "n", "g", "." >>

\* the f-string of line 66 up to the placeholder
NotFoundPrefix ==
    << "C", "o", "u", "l", "d", "n", "'", "t", " ", "f", "i", "n", "d", " ", "i", "n",
       "f", "o", "r", "m", "a", "t", "i", "o", "n", " ", "a", "b", "o", "u", "t", " ",
       "'" >>

\* the f-string of line 66 after the placeholder
NotFoundSuffix ==
    << "'", " ", "o", "n", " ", "F", "a", "k", "e", " ", "W", "i", "k", "i", "p", "e",
       "d", "i", "a", "." >>

----------------------------------------------------------------------------
\* Text operations.

\* str.lower() on one character (ASCII letters)
LowerChar(c) ==
    CASE
           c = "A" -> "a"
        [] c = "B" -> "b"
        [] c = "C" -> "c"
        [] c = "D" -> "d"
        [] c = "E" -> "e"
        [] c = "F" -> "f"
        [] c = "G" -> "g"
        [] c = "H" -> "h"
        [] c = "I" -> "i"
        [] c = "J" -> "j"
        [] c = "K" -> "k"
        [] c = "L" -> "l"
        [] c = "M" -> "m"
        [] c = "N" -> "n"
        [] c = "O" -> "o"
        [] c = "P" -> "p"
        [] c = "Q" -> "q"
        [] c = "R" -> "r"
        [] c = "S" -> "s"
        [] c = "T" -> "t"
        [] c = "U" -> "u"
        [] c = "V" -> "v"
        [] c = "W" -> "w"
        [] c = "X" -> "x"
        [] c = "Y" -> "y"
        [] c = "Z" -> "z"
        [] OTHER -> c

\* str.lower(): every character lower-cased, length and order kept
lower(s) == [i \in 1..Len(s) |-> LowerChar(s[i])]

\* the Python operator `sub in s` on strings
Contains(s, sub) ==
    \E i \in 1..(Len(s) - Len(sub) + 1) :
        SubSeq(s, i, i + Len(sub) - 1) = sub

\* the f-string of line 66
NotFoundMessage(query) == NotFoundPrefix \o query \o NotFoundSuffix

----------------------------------------------------------------------------
\* The tool functions: the value each returns.

\* multiply with the operator of add
multiply_adds(a, b) == a + b

\* line 37
multiply(a, b) == a * b

\* line 47
add(a, b) == a + b

\* search_wikipedia with the "llama" test moved before the "alan turing" test
search_wikipedia_llama_first(query0) ==
    LET query == lower(query0) IN
    IF Contains(query, KeyLlama) THEN LlamaEntry
    ELSE IF Contains(query, KeyAlanTuring) THEN AlanTuringEntry
    ELSE IF Contains(query, KeyReactAgent) THEN ReactAgentEntry
    ELSE NotFoundMessage(query)

\* lines 58-66; the name query is rebound to its lower-cased form on line 58,
\* so the message of line 66 interpolates the lower-cased text
search_wikipedia(query0) ==
    LET query == lower(query0) IN
    IF Contains(query, KeyAlanTuring) THEN AlanTuringEntry
    ELSE IF Contains(query, KeyLlama) THEN LlamaEntry
    ELSE IF Contains(query, KeyReactAgent) THEN ReactAgentEntry
    ELSE NotFoundMessage(query)

\* the diagnostic line a tool function prints first (lines 36, 46, 55):
\* the arguments are interpolated as they were passed
DiagLine(fn, args) ==
    CASE fn = "multiply" -> [line |-> "Calling Multiply Tool", args |-> args]
      [] fn = "add" -> [line |-> "Calling Add Tool", args |-> args]
      [] fn = "search_wikipedia" ->
            [line |-> "Calling Wikipedia Tool", args |-> args]

\* the value a tool function returns for its arguments
ToolResult(fn, args) ==
    CASE fn = "multiply" -> multiply(args[1], args[2])
      [] fn = "add" -> add(args[1], args[2])
      [] fn = "search_wikipedia" -> search_wikipedia(args[1])

----------------------------------------------------------------------------
\* Values of the state.

\* os.getenv gives None for a variable that is not set
None == "None"

\* a module global that holds an object and has not been assigned yet
Unbound == [unbound |-> TRUE]

\* a credential that is set and not empty
SomeKey == "key"

\* what GOOGLE_API_KEY can be in the environment or in the .env file:
\* not set, set to the empty string, set to a key
EnvValues == {None, "", SomeKey}

NoFrame == [fn |-> "none", args |-> << >>, ret |-> "none"]

NoError == [type |-> "none", at |-> "none"]

\* the classes of exception the try block of lines 103-158 tells apart:
\* AttributeError, any other instance of Exception, and an exception that
\* is not an instance of Exception (KeyboardInterrupt, SystemExit)
ExcKinds == {"AttributeError", "Exception", "BaseException"}

\* the attributes the introspection probes
Attributes == {"agent_worker", "_react_chat_formatter", "system_header",
               "_get_tool_description", "get_system_prompt"}

\* the order of the statements of the script
PhaseOrder == << "credential", "tools", "agent", "query", "response",
                 "diagnostic" >>

\* the question of line 91
Question == "Who was Alan Turing and what is 5 added to 12.5?"

\* a printed line without interpolated arguments
Line(text) == [line |-> text, args |-> << >>]

\* FunctionTool.from_defaults(fn=..., name=...): the descriptor keeps the
\* name it is given and the function it wraps
FunctionTool(fn, name) == [name |-> name, fn |-> fn]

\* the texts a query is assembled from
Pieces ==
    { << "a", "l", "a", "n", " ", "t", "u", "r", "i", "n", "g" >>,
      << "A", "l", "a", "n", " ", "T", "u", "r", "i", "n", "g" >>,
      << "l", "l", "a", "m", "a" >>,
      << "L", "L", "a", "M", "A" >>,
      << "r", "e", "a", "c", "t", " ", "a", "g", "e", "n", "t" >>,
      << "R", "e", "A", "c", "t", " ", "A", "g", "e", "n", "t" >>,
      << "P", "a", "r", "i", "s" >>,
      << "a", "l", "a", "n" >>,
      << " ", "t", "u", "r", "i", "n", "g" >>,
      << " " >>,
      << "l", "l", "a", "m" >>,
      << "a" >> }

RECURSIVE QueriesOf(_)
\* the texts made of at most n pieces
QueriesOf(n) ==
    IF n = 0 THEN { << >> }
    ELSE LET shorter == QueriesOf(n - 1) IN
         shorter \cup { q \o p : q \in shorter, p \in Pieces }

\* the queries of a direct call of search_wikipedia
Queries == QueriesOf(MaxParts)

\* the queries the delegate passes to wikipedia_search while it answers
DelegateQueries ==
    { << "A", "l", "a", "n", " ", "T", "u", "r", "i", "n", "g" >>,
      << "P", "a", "r", "i", "s" >> }

\* the argument lists the delegate may pass to a tool function
DelegateArgs(fn) ==
    IF fn = "search_wikipedia"
    THEN { << q >> : q \in DelegateQueries }
    ELSE { << a, b >> : a \in 0..MaxArg, b \in 0..MaxArg }

\* the argument lists of a direct call of a tool function
DirectArgs(fn) ==
    IF fn = "search_wikipedia"
    THEN { << q >> : q \in Queries }
    ELSE { << a, b >> : a \in (-MaxNum)..MaxNum, b \in (-MaxNum)..MaxNum }

ToolFunctions == {"multiply", "add", "search_wikipedia"}

----------------------------------------------------------------------------
\* The run of the script.

Init ==
    /\ environ \in EnvValues
    /\ google_api_key = None
    /\ pc = "load_dotenv"
    /\ multiply_tool = Unbound
    /\ add_tool = Unbound
    /\ wikipedia_tool = Unbound
    /\ tools = << >>
    /\ llm = Unbound
    /\ agent = Unbound
    /\ question = None
    /\ response = None
    /\ out = << >>
    /\ frame = NoFrame
    /\ callLog = << >>
    /\ queriesSent = 0
    /\ phases = << >>
    /\ shape = [a \in Attributes |-> "unknown"]
    /\ called = { }
    /\ exc = None
    /\ error = NoError

\* an exception leaves the script uncaught: the interpreter stops
Crash(type, at) ==
    /\ error' = [type |-> type, at |-> at]
    /\ pc' = "crashed"

\* line 17: load_dotenv() copies the value of the .env file into the
\* environment unless the variable is already set there
LoadDotenv ==
    /\ pc = "load_dotenv"
    /\ \E fileValue \in EnvValues :
          environ' = IF environ = None THEN fileValue ELSE environ
    /\ phases' = Append(phases, "credential")
    /\ pc' = "getenv"
    /\ UNCHANGED << google_api_key, multiply_tool, add_tool, wikipedia_tool,
                    tools, llm, agent, question, response, out, frame,
                    callLog, queriesSent, shape, called, exc, error >>

\* line 18
GetEnv ==
    /\ pc = "getenv"
    /\ google_api_key' = environ
    /\ pc' = "check_key"
    /\ UNCHANGED << environ, multiply_tool, add_tool, wikipedia_tool, tools,
                    llm, agent, question, response, out, frame, callLog,
                    queriesSent, phases, shape, called, exc, error >>

\* a test that takes only the empty string for a missing credential
Falsy_empty_only(v) == v = ""

\* `not google_api_key`: None and the empty string are falsy
Falsy(v) == v = None \/ v = ""

\* lines 20-21
CheckKey ==
    /\ pc = "check_key"
    /\ IF Falsy(google_api_key)
       THEN Crash("ValueError", "credential")
       ELSE pc' = "make_multiply_tool" /\ UNCHANGED error
    /\ UNCHANGED << environ, google_api_key, multiply_tool, add_tool,
                    wikipedia_tool, tools, llm, agent, question, response,
                    out, frame, callLog, queriesSent, phases, shape, called,
                    exc >>

\* line 70
MakeMultiplyTool ==
    /\ pc = "make_multiply_tool"
    /\ multiply_tool' = FunctionTool("multiply", "multiply_numbers")
    /\ phases' = Append(phases, "tools")
    /\ pc' = "make_add_tool"
    /\ UNCHANGED << environ, google_api_key, add_tool, wikipedia_tool, tools,
                    llm, agent, question, response, out, frame, callLog,
                    queriesSent, shape, called, exc, error >>

\* line 71 written as a copy of line 70
MakeAddTool_copied ==
    /\ pc = "make_add_tool"
    /\ add_tool' = FunctionTool("multiply", "multiply_numbers")
    /\ pc' = "make_wikipedia_tool"
    /\ UNCHANGED << environ, google_api_key, multiply_tool, wikipedia_tool,
                    tools, llm, agent, question, response, out, frame,
                    callLog, queriesSent, phases, shape, called, exc, error >>

\* line 71
MakeAddTool ==
    /\ pc = "make_add_tool"
    /\ add_tool' = FunctionTool("add", "add_numbers")
    /\ pc' = "make_wikipedia_tool"
    /\ UNCHANGED << environ, google_api_key, multiply_tool, wikipedia_tool,
                    tools, llm, agent, question, response, out, frame,
                    callLog, queriesSent, phases, shape, called, exc, error >>

\* line 72
MakeWikipediaTool ==
    /\ pc = "make_wikipedia_tool"
    /\ wikipedia_tool' = FunctionTool("search_wikipedia", "wikipedia_search")
    /\ pc' = "make_tools"
    /\ UNCHANGED << environ, google_api_key, multiply_tool, add_tool, tools,
                    llm, agent, question, response, out, frame, callLog,
                    queriesSent, phases, shape, called, exc, error >>

\* line 75
MakeTools ==
    /\ pc = "make_tools"
    /\ tools' = << multiply_tool, add_tool, wikipedia_tool >>
    /\ pc' = "make_llm"
    /\ UNCHANGED << environ, google_api_key, multiply_tool, add_tool,
                    wikipedia_tool, llm, agent, question, response, out,
                    frame, callLog, queriesSent, phases, shape, called, exc,
                    error >>

\* line 80: the constructor of the model handle returns or raises; the
\* statement is outside every try block
MakeLLM ==
    /\ pc = "make_llm"
    /\ phases' = Append(phases, "agent")
    /\ \/ /\ llm' = [model |-> "gemini-2.0-flash-lite",
                     api_key |-> google_api_key]
          /\ pc' = "make_agent"
          /\ UNCHANGED error
       \/ /\ \E k \in ExcKinds : Crash(k, "llm")
          /\ UNCHANGED llm
    /\ UNCHANGED << environ, google_api_key, multiply_tool, add_tool,
                    wikipedia_tool, tools, agent, question, response, out,
                    frame, callLog, queriesSent, shape, called, exc >>

\* lines 83-87: ReActAgent.from_tools returns or raises; the statement is
\* outside every try block
MakeAgent ==
    /\ pc = "make_agent"
    /\ \/ /\ agent' = [tools |-> tools, llm |-> llm, verbose |-> TRUE]
          /\ pc' = "print_start"
          /\ UNCHANGED error
       \/ /\ \E k \in ExcKinds : Crash(k, "agent")
          /\ UNCHANGED agent
    /\ UNCHANGED << environ, google_api_key, multiply_tool, add_tool,
                    wikipedia_tool, tools, llm, question, response, out,
                    frame, callLog, queriesSent, phases, shape, called, exc >>

\* lines 90-91
PrintStart ==
    /\ pc = "print_start"
    /\ out' = Append(out, Line("--- Starting Agent ---"))
    /\ question' = Question
    /\ phases' = Append(phases, "query")
    /\ pc' = "chat"
    /\ UNCHANGED << environ, google_api_key, multiply_tool, add_tool,
                    wikipedia_tool, tools, llm, agent, response, frame,
                    callLog, queriesSent, shape, called, exc, error >>

\* a call of agent.chat that sends the question again after the first answer
ChatSend_twice ==
    /\ pc = "chat"
    /\ queriesSent' = queriesSent + 2
    /\ pc' = "in_chat"
    /\ UNCHANGED << environ, google_api_key, multiply_tool, add_tool,
                    wikipedia_tool, tools, llm, agent, question, response,
                    out, frame, callLog, phases, shape, called, exc, error >>

\* line 94, the call: the question is handed to the delegate
ChatSend ==
    /\ pc = "chat"
    /\ queriesSent' = queriesSent + 1
    /\ pc' = "in_chat"
    /\ UNCHANGED << environ, google_api_key, multiply_tool, add_tool,
                    wikipedia_tool, tools, llm, agent, question, response,
                    out, frame, callLog, phases, shape, called, exc, error >>

\* inside agent.chat: the delegate calls one of the tools it was given,
\* with arguments of its choice
DelegateInvokeTool ==
    /\ pc = "in_chat"
    /\ Len(callLog) < MaxCalls
    /\ \E t \in 1..Len(agent.tools) :
          \E args \in DelegateArgs(agent.tools[t].fn) :
             frame' = [fn |-> agent.tools[t].fn, args |-> args,
                       ret |-> "in_chat"]
    /\ pc' = "tool_print"
    /\ UNCHANGED << environ, google_api_key, multiply_tool, add_tool,
                    wikipedia_tool, tools, llm, agent, question, response,
                    out, callLog, queriesSent, phases, shape, called, exc,
                    error >>

\* a tool function that prints its diagnostic line twice
ToolPrint_twice ==
    /\ pc = "tool_print"
    /\ out' = out \o << DiagLine(frame.fn, frame.args),
                        DiagLine(frame.fn, frame.args) >>
    /\ pc' = "tool_return"
    /\ UNCHANGED << environ, google_api_key, multiply_tool, add_tool,
                    wikipedia_tool, tools, llm, agent, question, response,
                    frame, callLog, queriesSent, phases, shape, called, exc,
                    error >>

\* lines 36, 46, 55: the first statement of a tool function
ToolPrint ==
    /\ pc = "tool_print"
    /\ out' = Append(out, DiagLine(frame.fn, frame.args))
    /\ pc' = "tool_return"
    /\ UNCHANGED << environ, google_api_key, multiply_tool, add_tool,
                    wikipedia_tool, tools, llm, agent, question, response,
                    frame, callLog, queriesSent, phases, shape, called, exc,
                    error >>

\* lines 37, 47, 58-66: the tool function returns to its caller
ToolReturn ==
    /\ pc = "tool_return"
    /\ callLog' = Append(callLog, [fn |-> frame.fn, args |-> frame.args,
                                   result |-> ToolResult(frame.fn, frame.args)])
    /\ frame' = NoFrame
    /\ pc' = frame.ret
    /\ UNCHANGED << environ, google_api_key, multiply_tool, add_tool,
                    wikipedia_tool, tools, llm, agent, question, response,
                    out, queriesSent, phases, shape, called, exc, error >>

\* line 94, the return: agent.chat gives its response, or raises; the
\* statement is outside every try block
ChatReturn ==
    /\ pc = "in_chat"
    /\ \/ /\ response' = "response"
          /\ pc' = "print_answer"
          /\ UNCHANGED error
       \/ /\ \E k \in ExcKinds : Crash(k, "chat")
          /\ UNCHANGED response
    /\ UNCHANGED << environ, google_api_key, multiply_tool, add_tool,
                    wikipedia_tool, tools, llm, agent, question, out, frame,
                    callLog, queriesSent, phases, shape, called, exc >>

\* lines 96-99
PrintAnswer ==
    /\ pc = "print_answer"
    /\ out' = out \o << Line("--- Final Answer ---"),
                        [line |-> "response", args |-> << response >>],
                        Line("--- Agent Finished ---") >>
    /\ phases' = Append(phases, "response")
    /\ pc' = "read_agent_worker"
    /\ UNCHANGED << environ, google_api_key, multiply_tool, add_tool,
                    wikipedia_tool, tools, llm, agent, question, response,
                    frame, callLog, queriesSent, shape, called, exc, error >>

----------------------------------------------------------------------------
\* The introspection of lines 103-158.

\* an exception is raised inside the try block
Raise(k) ==
    /\ exc' = k
    /\ pc' = "raised"

\* the probe of an attribute finds it or finds it missing
Probed(attr, found) == shape' = [shape EXCEPT ![attr] = found]

\* hasattr(obj, attr): True when the attribute can be read, False when the
\* read raises AttributeError; any other exception of the read propagates
HasAttr(attr, pcTrue, pcFalse) ==
    \/ /\ Probed(attr, "present")
       /\ pc' = pcTrue
       /\ UNCHANGED exc
    \/ /\ Probed(attr, "absent")
       /\ pc' = pcFalse
       /\ UNCHANGED exc
    \/ /\ \E k \in ExcKinds \ {"AttributeError"} : Raise(k)
       /\ UNCHANGED shape

\* line 105: a plain attribute read; a missing attribute raises
\* AttributeError
ReadAgentWorker ==
    /\ pc = "read_agent_worker"
    /\ phases' = Append(phases, "diagnostic")
    /\ \/ /\ Probed("agent_worker", "present")
          /\ pc' = "has_formatter"
          /\ UNCHANGED exc
       \/ /\ Probed("agent_worker", "absent")
          /\ Raise("AttributeError")
       \/ /\ \E k \in ExcKinds \ {"AttributeError"} : Raise(k)
          /\ UNCHANGED shape
    /\ UNCHANGED << environ, google_api_key, multiply_tool, add_tool,
                    wikipedia_tool, tools, llm, agent, question, response,
                    out, frame, callLog, queriesSent, called, error >>

\* lines 111-112
HasFormatter ==
    /\ pc = "has_formatter"
    /\ HasAttr("_react_chat_formatter", "has_system_header",
               "has_get_system_prompt")
    /\ UNCHANGED << environ, google_api_key, multiply_tool, add_tool,
                    wikipedia_tool, tools, llm, agent, question, response,
                    out, frame, callLog, queriesSent, phases, called, error >>

\* line 117 with its else branch falling through to the test of line 138
HasSystemHeader_falls_through ==
    /\ pc = "has_system_header"
    /\ HasAttr("system_header", "print_system_prompt",
               "has_get_system_prompt")
    /\ UNCHANGED << environ, google_api_key, multiply_tool, add_tool,
                    wikipedia_tool, tools, llm, agent, question, response,
                    out, frame, callLog, queriesSent, phases, called, error >>

\* line 117
HasSystemHeader ==
    /\ pc = "has_system_header"
    /\ HasAttr("system_header", "print_system_prompt", "no_system_header")
    /\ UNCHANGED << environ, google_api_key, multiply_tool, add_tool,
                    wikipedia_tool, tools, llm, agent, question, response,
                    out, frame, callLog, queriesSent, phases, called, error >>

\* lines 118-121
PrintSystemPrompt ==
    /\ pc = "print_system_prompt"
    /\ out' = out \o << Line("--- System Prompt ---"),
                        Line("system_header"),
                        Line("---------------------") >>
    /\ pc' = "has_get_tool_description"
    /\ UNCHANGED << environ, google_api_key, multiply_tool, add_tool,
                    wikipedia_tool, tools, llm, agent, question, response,
                    frame, callLog, queriesSent, phases, shape, called, exc,
                    error >>

\* line 125
HasGetToolDescription ==
    /\ pc = "has_get_tool_description"
    /\ HasAttr("_get_tool_description", "call_get_tool_description",
               "no_tool_description")
    /\ UNCHANGED << environ, google_api_key, multiply_tool, add_tool,
                    wikipedia_tool, tools, llm, agent, question, response,
                    out, frame, callLog, queriesSent, phases, called, error >>

\* lines 126-129: the method returns and its text is printed, or it raises
CallGetToolDescription ==
    /\ pc = "call_get_tool_description"
    /\ called' = called \cup {"_get_tool_description"}
    /\ \/ /\ out' = out \o
                 << Line("--- Generated Tool Description (Part of Prompt) ---"),
                    Line("tool_desc"),
                    Line("----------------------------------------------------") >>
          /\ pc' = "done"
          /\ UNCHANGED exc
       \/ /\ \E k \in ExcKinds : Raise(k)
          /\ UNCHANGED out
    /\ UNCHANGED << environ, google_api_key, multiply_tool, add_tool,
                    wikipedia_tool, tools, llm, agent, question, response,
                    frame, callLog, queriesSent, phases, shape, error >>

\* line 131
NoToolDescription ==
    /\ pc = "no_tool_description"
    /\ out' = Append(out,
          Line("(Could not find method to get formatted tool description)"))
    /\ pc' = "done"
    /\ UNCHANGED << environ, google_api_key, multiply_tool, add_tool,
                    wikipedia_tool, tools, llm, agent, question, response,
                    frame, callLog, queriesSent, phases, shape, called, exc,
                    error >>

\* lines 134-136
NoSystemHeader ==
    /\ pc = "no_system_header"
    /\ out' = out \o
          << Line("Could not find 'system_header' attribute on the formatter."),
             Line("Agent's internal structure might have changed."),
             Line("Try inspecting formatter attributes:") >>
    /\ pc' = "done"
    /\ UNCHANGED << environ, google_api_key, multiply_tool, add_tool,
                    wikipedia_tool, tools, llm, agent, question, response,
                    frame, callLog, queriesSent, phases, shape, called, exc,
                    error >>

\* line 138
HasGetSystemPrompt ==
    /\ pc = "has_get_system_prompt"
    /\ HasAttr("get_system_prompt", "call_get_system_prompt",
               "no_formatter_no_prompt")
    /\ UNCHANGED << environ, google_api_key, multiply_tool, add_tool,
                    wikipedia_tool, tools, llm, agent, question, response,
                    out, frame, callLog, queriesSent, phases, called, error >>

\* lines 140-143: the method returns and its text is printed, or it raises
CallGetSystemPrompt ==
    /\ pc = "call_get_system_prompt"
    /\ called' = called \cup {"get_system_prompt"}
    /\ \/ /\ out' = out \o
                 << Line("--- System Prompt (via get_system_prompt) ---"),
                    Line("system_prompt"),
                    Line("---------------------------------------------") >>
          /\ pc' = "done"
          /\ UNCHANGED exc
       \/ /\ \E k \in ExcKinds : Raise(k)
          /\ UNCHANGED out
    /\ UNCHANGED << environ, google_api_key, multiply_tool, add_tool,
                    wikipedia_tool, tools, llm, agent, question, response,
                    frame, callLog, queriesSent, phases, shape, error >>

\* lines 146-148
NoFormatterNoPrompt ==
    /\ pc = "no_formatter_no_prompt"
    /\ out' = out \o
          << Line("Could not find '_react_chat_formatter' or 'get_system_prompt' on the agent worker."),
             Line("Agent's internal structure might differ based on LlamaIndex version."),
             Line("Try inspecting agent_worker attributes:") >>
    /\ pc' = "done"
    /\ UNCHANGED << environ, google_api_key, multiply_tool, add_tool,
                    wikipedia_tool, tools, llm, agent, question, response,
                    frame, callLog, queriesSent, phases, shape, called, exc,
                    error >>

\* a class test that matches AttributeError only
IsException_narrow(k) == k = "AttributeError"

\* the class test of `except Exception`: every exception is caught except
\* one that is not an instance of Exception
IsException(k) == k \in {"AttributeError", "Exception"}

\* lines 150-153
ExceptAttributeError ==
    /\ pc = "raised"
    /\ exc = "AttributeError"
    /\ out' = out \o
          << Line("Error accessing internal agent attributes:"),
             Line("This often happens if LlamaIndex internal structure has changed between versions."),
             Line("Try inspecting the agent object directly:") >>
    /\ exc' = None
    /\ pc' = "done"
    /\ UNCHANGED << environ, google_api_key, multiply_tool, add_tool,
                    wikipedia_tool, tools, llm, agent, question, response,
                    frame, callLog, queriesSent, phases, shape, called,
                    error >>

\* lines 157-158 with a handler that swallows the exception silently
ExceptException_silent ==
    /\ pc = "raised"
    /\ exc # "AttributeError"
    /\ IsException(exc)
    /\ exc' = None
    /\ pc' = "done"
    /\ UNCHANGED << environ, google_api_key, multiply_tool, add_tool,
                    wikipedia_tool, tools, llm, agent, question, response,
                    out, frame, callLog, queriesSent, phases, shape, called,
                    error >>

\* lines 157-158
ExceptException ==
    /\ pc = "raised"
    /\ exc # "AttributeError"
    /\ IsException(exc)
    /\ out' = Append(out, Line("An unexpected error occurred:"))
    /\ exc' = None
    /\ pc' = "done"
    /\ UNCHANGED << environ, google_api_key, multiply_tool, add_tool,
                    wikipedia_tool, tools, llm, agent, question, response,
                    frame, callLog, queriesSent, phases, shape, called,
                    error >>

\* no except clause of lines 150-158 matches: the exception leaves the try
\* statement and ends the run
Propagate ==
    /\ pc = "raised"
    /\ exc # "AttributeError"
    /\ ~IsException(exc)
    /\ Crash(exc, "introspection")
    /\ exc' = None
    /\ UNCHANGED << environ, google_api_key, multiply_tool, add_tool,
                    wikipedia_tool, tools, llm, agent, question, response,
                    out, frame, callLog, queriesSent, phases, shape, called >>

----------------------------------------------------------------------------
\* The specifications.

Next ==
    \/ LoadDotenv
    \/ GetEnv
    \/ CheckKey
    \/ MakeMultiplyTool
    \/ MakeAddTool
    \/ MakeWikipediaTool
    \/ MakeTools
    \/ MakeLLM
    \/ MakeAgent
    \/ PrintStart
    \/ ChatSend
    \/ DelegateInvokeTool
    \/ ToolPrint
    \/ ToolReturn
    \/ ChatReturn
    \/ PrintAnswer
    \/ ReadAgentWorker
    \/ HasFormatter
    \/ HasSystemHeader
    \/ PrintSystemPrompt
    \/ HasGetToolDescription
    \/ CallGetToolDescription
    \/ NoToolDescription
    \/ NoSystemHeader
    \/ HasGetSystemPrompt
    \/ CallGetSystemPrompt
    \/ NoFormatterNoPrompt
    \/ ExceptAttributeError
    \/ ExceptException
    \/ Propagate

\* a run of the script
Spec == Init /\ [][Next]_vars

\* a direct call of one tool function, as a test of the function makes it:
\* the credential is set and the function is entered with the arguments
DirectInit ==
    /\ environ = SomeKey
    /\ google_api_key = SomeKey
    /\ pc = "tool_print"
    /\ multiply_tool = Unbound
    /\ add_tool = Unbound
    /\ wikipedia_tool = Unbound
    /\ tools = << >>
    /\ llm = Unbound
    /\ agent = Unbound
    /\ question = None
    /\ response = None
    /\ out = << >>
    /\ \E fn \in ToolFunctions :
          \E args \in DirectArgs(fn) :
             frame = [fn |-> fn, args |-> args, ret |-> "returned"]
    /\ callLog = << >>
    /\ queriesSent = 0
    /\ phases = << >>
    /\ shape = [a \in Attributes |-> "unknown"]
    /\ called = { }
    /\ exc = None
    /\ error = NoError

DirectNext ==
    \/ ToolPrint
    \/ ToolReturn

\* the tool functions called directly
SpecDirect == DirectInit /\ [][DirectNext]_vars

----------------------------------------------------------------------------
\* Vocabulary of the properties.

\* the lines of out that a tool function printed
ToolLines ==
    { i \in 1..Len(out) :
        out[i].line \in {"Calling Multiply Tool", "Calling Add Tool",
                         "Calling Wikipedia Tool"} }

\* the texts the introspection prints on its four branches
BranchMarkers ==
    { "--- System Prompt ---",
      "Could not find 'system_header' attribute on the formatter.",
      "--- System Prompt (via get_system_prompt) ---",
      "Could not find '_react_chat_formatter' or 'get_system_prompt' on the agent worker." }

\* the texts the two except clauses print
HandlerMarkers ==
    { "Error accessing internal agent attributes:",
      "An unexpected error occurred:" }

\* the branch and handler texts that out holds
Printed(markers) == { out[i].line : i \in 1..Len(out) } \cap markers

\* the run has reached the try statement of line 103
InIntrospection == Len(phases) = Len(PhaseOrder)

\* nothing but the globals of lines 17-18 exists yet
NothingBuilt ==
    /\ multiply_tool = Unbound
    /\ add_tool = Unbound
    /\ wikipedia_tool = Unbound
    /\ tools = << >>
    /\ llm = Unbound
    /\ agent = Unbound
    /\ question = None
    /\ response = None
    /\ queriesSent = 0
    /\ frame = NoFrame
    /\ callLog = << >>
    /\ out = << >>

\* key occurs in query when letter case is ignored
MatchesIgnoringCase(query, key) ==
    \E off \in 0..(Len(query) - Len(key)) :
        \A j \in 1..Len(key) : LowerChar(query[off + j]) = key[j]

\* text is a not-found message: it opens and closes as line 66 does
IsNotFound(text) ==
    /\ Len(text) >= Len(NotFoundPrefix) + Len(NotFoundSuffix)
    /\ SubSeq(text, 1, Len(NotFoundPrefix)) = NotFoundPrefix
    /\ SubSeq(text, Len(text) - Len(NotFoundSuffix) + 1, Len(text))
          = NotFoundSuffix

\* the completed calls of one tool function
CallsOf(fn) == { i \in 1..Len(callLog) : callLog[i].fn = fn }

----------------------------------------------------------------------------
\* C1: when GOOGLE_API_KEY is absent from the environment that line 18
\* reads, the run ends in the ValueError of line 21 and nothing else has
\* happened: no tool descriptor, no model handle, no agent, no query sent,
\* no tool function entered, no line printed.
C1_MissingCredentialHalts ==
    (pc # "load_dotenv" /\ environ = None) =>
        /\ pc \in {"getenv", "check_key", "crashed"}
        /\ pc = "crashed" => error = [type |-> "ValueError",
                                      at |-> "credential"]
        /\ NothingBuilt
        /\ ToolLines = { }
        /\ phases = << "credential" >>

C1_Witness ==
    /\ pc = "crashed"
    /\ environ = None
    /\ error.type = "ValueError"

\* C2 as stated: a run that ends with an uncaught error ended at the
\* credential check.
C2_OnlyCredentialIsFatal ==
    pc = "crashed" => error.at = "credential"

\* where an uncaught error can come from, and of what class
C2_UncaughtSources ==
    pc = "crashed" =>
        /\ error.at \in {"credential", "llm", "agent", "chat",
                         "introspection"}
        /\ error.at = "credential" =>
              (error.type = "ValueError" /\ google_api_key \in {None, ""})
        /\ error.at = "introspection" => error.type = "BaseException"
        /\ error.at \in {"llm", "agent", "chat"} => ~InIntrospection

\* an instance of Exception in flight in the try block is caught by the
\* next step, which prints and goes to the end of the script
C2_CaughtInTry ==
    (pc = "raised" /\ exc \in {"AttributeError", "Exception"}) =>
        /\ pc' = "done"
        /\ Len(out') > Len(out)
        /\ error' = NoError

\* C2, amended: an uncaught error comes from the credential check, from
\* the construction of the model handle or of the agent, from agent.chat,
\* or from an exception in the introspection that is not an instance of
\* Exception; an instance of Exception raised in the introspection is
\* caught and printed, and the run goes on to its end.
C2_UncaughtFailures ==
    []C2_UncaughtSources /\ [][C2_CaughtInTry]_vars

C2_Witness ==
    /\ pc = "crashed"
    /\ error.at = "chat"
    /\ queriesSent = 1

\* C3 as stated: once the introspection is reached the run never ends
\* with an uncaught error.
C3_IntrospectionNeverCrashes ==
    InIntrospection => pc # "crashed"

\* the introspection ends with a message printed, and an uncaught error in
\* it is never an instance of Exception
C3_EndsWithMessage ==
    /\ (pc = "done" => Printed(BranchMarkers \cup HandlerMarkers) # { })
    /\ (pc = "crashed" /\ InIntrospection) =>
          (error.at = "introspection" /\ error.type = "BaseException")
    /\ (pc = "raised" => (InIntrospection /\ exc \in ExcKinds))

\* a missing agent_worker or a raised instance of Exception is
\* handled by the next step: a message is printed and the script ends
C3_HandlerStep ==
    (pc = "raised" /\ exc \in {"AttributeError", "Exception"}) =>
        /\ pc' = "done"
        /\ Printed(HandlerMarkers)' # { }
        /\ exc' = None

\* C3, amended: whatever attributes are present or absent, and for every
\* exception that is an instance of Exception raised while they are read
\* or called, the failure is caught, at least one message is printed and
\* the script reaches its normal end.
C3_ExceptionsAreCaught ==
    []C3_EndsWithMessage /\ [][C3_HandlerStep]_vars

C3_Witness ==
    /\ pc = "done"
    /\ shape["_get_tool_description"] = "present"
    /\ "_get_tool_description" \in called
    /\ "An unexpected error occurred:" \in Printed(HandlerMarkers)

\* C4: the result of search_wikipedia is the entry of the first of
\* "alan turing", "llama", "react agent" that the query contains when
\* letter case is ignored, and a not-found message exactly when the query
\* contains none of them.
C4_FirstMatchWins ==
    \A i \in CallsOf("search_wikipedia") :
        LET query == callLog[i].args[1]
            text == callLog[i].result
            turing == MatchesIgnoringCase(query, KeyAlanTuring)
            llama == MatchesIgnoringCase(query, KeyLlama)
            react == MatchesIgnoringCase(query, KeyReactAgent)
        IN /\ turing => text = AlanTuringEntry
           /\ (~turing /\ llama) => text = LlamaEntry
           /\ (~turing /\ ~llama /\ react) => text = ReactAgentEntry
           /\ IsNotFound(text) <=> (~turing /\ ~llama /\ ~react)

C4_Witness ==
    \E i \in CallsOf("search_wikipedia") :
        /\ MatchesIgnoringCase(callLog[i].args[1], KeyAlanTuring)
        /\ MatchesIgnoringCase(callLog[i].args[1], KeyLlama)
        /\ ~Contains(callLog[i].args[1], KeyAlanTuring)
        /\ callLog[i].result = AlanTuringEntry

\* C5: for a query that matches none of the three substrings the message
\* of search_wikipedia holds the query as it was passed and says that
\* nothing was found.
C5_MessageQuotesQuery ==
    \A i \in CallsOf("search_wikipedia") :
        LET query == callLog[i].args[1]
            text == callLog[i].result
        IN (/\ ~MatchesIgnoringCase(query, KeyAlanTuring)
            /\ ~MatchesIgnoringCase(query, KeyLlama)
            /\ ~MatchesIgnoringCase(query, KeyReactAgent))
           => (IsNotFound(text) /\ Contains(text, query))

\* C6: the phases start in the order credential, tools, agent, query,
\* response, diagnostic, each at most once and each after the one before
\* it has finished; the question is sent exactly once in a run that
\* reaches the query.
C6_PhaseOrder ==
    /\ Len(phases) <= Len(PhaseOrder)
    /\ phases = SubSeq(PhaseOrder, 1, Len(phases))
    /\ queriesSent <= 1
    /\ (queriesSent = 1) <=> (Len(phases) >= 4 /\ pc # "chat")
    /\ Len(phases) >= 2 => google_api_key \notin {None, ""}
    /\ Len(phases) >= 3 => (Len(tools) = 3 /\ pc # "make_tools")
    /\ Len(phases) >= 4 => (llm # Unbound /\ agent # Unbound)
    /\ Len(phases) >= 5 => (response # None /\ frame = NoFrame)
    /\ Len(phases) >= 6 =>
          (\E i \in 1..Len(out) : out[i].line = "--- Agent Finished ---")

C6_Witness ==
    /\ pc = "done"
    /\ phases = PhaseOrder
    /\ queriesSent = 1
    /\ Len(callLog) = MaxCalls

\* every tool call that has been entered has printed one line, and equal
\* calls have given equal results
C7_OneLinePerCall ==
    /\ Cardinality(ToolLines) =
          Len(callLog) + (IF pc = "tool_return" THEN 1 ELSE 0)
    /\ \A i, j \in 1..Len(callLog) :
          (callLog[i].fn = callLog[j].fn /\ callLog[i].args = callLog[j].args)
             => callLog[i].result = callLog[j].result

\* a step inside a tool function prints its line first, then returns, and
\* leaves the rest of the state alone
C7_ToolStep ==
    /\ pc = "tool_print" =>
          /\ out' = Append(out, DiagLine(frame.fn, frame.args))
          /\ callLog' = callLog
          /\ pc' = "tool_return"
    /\ pc = "tool_return" =>
          /\ out' = out
          /\ Len(callLog') = Len(callLog) + 1
          /\ pc' = frame.ret
    /\ pc \in {"tool_print", "tool_return"} =>
          UNCHANGED << environ, google_api_key, multiply_tool, add_tool,
                       wikipedia_tool, tools, llm, agent, question, response,
                       queriesSent, phases, shape, called, exc, error >>

\* C7: every call of a tool function prints exactly one diagnostic line
\* before it returns, gives a result that depends on its arguments only,
\* and changes nothing else of the program's state.
C7_ToolsArePure ==
    []C7_OneLinePerCall /\ [][C7_ToolStep]_vars

C7_Witness ==
    /\ pc = "in_chat"
    /\ Len(callLog) = 2
    /\ callLog[1] = callLog[2]
    /\ Cardinality(ToolLines) = 2

\* C8: add(a, b) returns a + b and multiply(a, b) returns a * b.
C8_Arithmetic ==
    /\ \A i \in CallsOf("add") :
          callLog[i].result = callLog[i].args[1] + callLog[i].args[2]
    /\ \A i \in CallsOf("multiply") :
          callLog[i].result = callLog[i].args[1] * callLog[i].args[2]

C8_Witness ==
    \E i \in CallsOf("multiply") :
        /\ callLog[i].args = << -2, 3 >>
        /\ callLog[i].result = -6

\* the registry is complete and the agent holds it
C9_RegistryShape ==
    /\ tools # << >> =>
          /\ Len(tools) = 3
          /\ tools[1] = [name |-> "multiply_numbers", fn |-> "multiply"]
          /\ tools[2] = [name |-> "add_numbers", fn |-> "add"]
          /\ tools[3] = [name |-> "wikipedia_search",
                         fn |-> "search_wikipedia"]
          /\ \A i, j \in 1..3 : tools[i].name = tools[j].name => i = j
    /\ agent # Unbound => (tools # << >> /\ agent.tools = tools)

\* once built, the registry and the agent's copy of it stay as they are
C9_RegistryStep ==
    /\ tools # << >> => tools' = tools
    /\ agent # Unbound => agent' = agent

\* C9: from its construction to the end of the run the registry holds
\* exactly the three descriptors multiply_numbers, add_numbers and
\* wikipedia_search, with distinct names, each bound to its own function;
\* no step adds, removes, renames or rebinds one.
C9_RegistryIsFixed ==
    []C9_RegistryShape /\ [][C9_RegistryStep]_vars

C9_Witness ==
    /\ pc = "done"
    /\ Len(tools) = 3
    /\ agent.tools = tools
    /\ Len(callLog) > 0

====
